---- MODULE Spec2Model ----
(***************************************************************************)
(* A model of the Patient Scheme backend: the repository helpers of        *)
(* utils.py (families / family_members tables held by the storage          *)
(* service), the bearer-protected routes of app1.py and the /generate-card *)
(* handler of app.py.                                                      *)
(*                                                                         *)
(* Python values are encoded as follows.  None and a missing dictionary    *)
(* key are the string NoneStr; an absent integer is NoInt.  A response     *)
(* object of the storage client is a record [hasData, data, error]:        *)
(* hasData tells whether .data is set, error = "" stands for no error.     *)
(* A row keeps the columns the code or a checked property looks at         *)
(* (family_name, address, relation and age are copied through unread).     *)
(***************************************************************************)
EXTENDS Integers, Sequences, FiniteSets, TLC

VARIABLES
    families,    \* rows of table "families"
    members,     \* rows of table "family_members"
    pending,     \* create_family calls between their two inserts
    nextFamId,   \* next id the storage assigns to a family row
    nextMemId,   \* next id the storage assigns to a member row
    ret,         \* what the last utils.py call did and returned
    last,        \* the last HTTP exchange of app1.py
    cardReq,     \* the /generate-card exchange of app.py
    authChk      \* one evaluation of require_auth

vars == <<families, members, pending, nextFamId, nextMemId, ret, last, cardReq, authChk>>
db == <<families, members, pending, nextFamId, nextMemId>>

----------------------------------------------------------------------------
(* Bounds of the model *)

MaxFamilies == 2        \* family rows created through utils.py directly
MaxRouteFamilies == 1   \* family rows created through POST /create-family

(* Program constants *)

IncomeThreshold == 100000
FeeSilverCard == 250
FeeGoldCard == 500
FeePlatinumCard == 1000

NoneStr == "<None>"
NoInt == -1
NoId == 0

Tiers == {"Silver", "Gold", "Platinum"}

----------------------------------------------------------------------------
(* Storage responses and their normalisation *)

FamResps == {"ok", "error", "empty", "none"}
MemResps == {"ok", "error"}

\* The response object the storage client hands back for a request of the
\* given outcome, carrying the given rows on success.
StorageResp(kind, rows) ==
    CASE kind = "ok"    -> [hasData |-> TRUE,  data |-> rows, error |-> ""]
      [] kind = "empty" -> [hasData |-> TRUE,  data |-> <<>>, error |-> ""]
      [] kind = "error" -> [hasData |-> FALSE, data |-> <<>>, error |-> "storage error"]
      [] OTHER          -> [hasData |-> FALSE, data |-> <<>>, error |-> ""]

\* _resp_data: {"data", "error"} when either attribute is set, otherwise the
\* fallback dictionary, which has neither key.
_resp_data(resp) ==
    IF resp.hasData \/ resp.error # ""
    THEN [keys |-> {"data", "error"}, hasData |-> resp.hasData,
          data |-> resp.data, error |-> resp.error]
    ELSE [keys |-> {"raw"}, hasData |-> FALSE, data |-> resp.data, error |-> ""]

\* parsed.get("error"), parsed.get("data")
GetError(parsed) == IF "error" \in parsed.keys THEN parsed.error ELSE ""
HasData(parsed) == "data" \in parsed.keys /\ parsed.hasData
GetRows(parsed) == IF HasData(parsed) THEN parsed.data ELSE <<>>

----------------------------------------------------------------------------
(* utils.py: family / member repository *)

\* The values uuid4().hex[:10] can take are 2^40; the model keeps a few of
\* them.  Nothing in the code compares a fresh number with the stored ones.
CardNumbers == {"CARD-A", "CARD-B"}

\* scheme logic that trusts the requested tier at or above the threshold
SchemeOfUnchecked(annual_income, chosen_scheme) ==
    IF annual_income < IncomeThreshold THEN "Silver" ELSE chosen_scheme

\* create_family, "apply scheme logic"
SchemeOf(annual_income, chosen_scheme) ==
    IF annual_income < IncomeThreshold
    THEN "Silver"
    ELSE IF chosen_scheme \in Tiers THEN chosen_scheme ELSE "Silver"

\* only the error of the family insert is looked at
FamInsertFailedErrorOnly(fam_parsed) == GetError(fam_parsed) # ""

\* create_family, the two checks after the family insert
FamInsertFailed(fam_parsed) ==
    \/ GetError(fam_parsed) # ""
    \/ GetRows(fam_parsed) = <<>>

\* A create_family call that has inserted its family row and not yet its
\* member rows: its locals family_id, members and user_id.
Call(family_id, mems, user_id) ==
    [family_id |-> family_id, mems |-> mems, user_id |-> user_id]

FamilyIds == {f.id : f \in families}
FamilyRow(id) == CHOOSE f \in families : f.id = id

\* create_family up to and including the family insert.  mems is the
\* requested member list (a sequence of names), card the number drawn by
\* _generate_card_number, kind the outcome of the storage request.
CreateFamilyInsert(user_id, annual_income, mems, chosen_scheme, card, kind) ==
    LET scheme == SchemeOf(annual_income, chosen_scheme)
        family_payload == [id |-> nextFamId, user_id |-> user_id,
                           annual_income |-> annual_income,
                           scheme_type |-> scheme, card_number |-> card]
        fam_parsed == _resp_data(StorageResp(kind, <<family_payload>>))
        family_rows == GetRows(fam_parsed)
        family_id == IF family_rows = <<>> THEN NoId ELSE family_rows[1].id
        r == [op |-> "create_family", stage |-> "family",
              income |-> annual_income, chosen |-> chosen_scheme,
              scheme |-> scheme, famResp |-> kind, wantMembers |-> mems # <<>>,
              fid |-> family_id]
    IN  /\ families' = IF kind = "ok" THEN families \cup {family_payload} ELSE families
        /\ nextFamId' = IF kind = "ok" THEN nextFamId + 1 ELSE nextFamId
        /\ IF FamInsertFailed(fam_parsed)
           THEN /\ ret' = [r EXCEPT !.fid = NoId] @@ [error |-> TRUE, returned |-> TRUE]
                /\ pending' = pending
           ELSE IF mems # <<>>
                THEN /\ ret' = r @@ [error |-> FALSE, returned |-> FALSE]
                     /\ pending' = pending \cup {Call(family_id, mems, user_id)}
                ELSE /\ ret' = r @@ [error |-> FALSE, returned |-> TRUE]
                     /\ pending' = pending
        /\ UNCHANGED <<members, nextMemId>>

\* The member rows create_family builds for family family_id.
ToInsert(family_id, mems) ==
    {[id |-> nextMemId + i - 1, family_id |-> family_id, name |-> mems[i]] :
        i \in 1..Len(mems)}

\* a member insert that takes the family row back when it fails
CreateFamilyMembersRollback(call, kind) ==
    LET mems == call.mems
        family_id == call.family_id
        to_insert == ToInsert(family_id, mems)
    IN  /\ call \in pending
        /\ pending' = pending \ {call}
        /\ IF kind = "ok"
           THEN /\ members' = members \cup to_insert
                /\ nextMemId' = nextMemId + Len(mems)
                /\ families' = families
           ELSE /\ families' = {f \in families : f.id # family_id}
                /\ UNCHANGED <<members, nextMemId>>
        /\ ret' = [op |-> "create_family", stage |-> "members", fid |-> family_id,
                   memResp |-> kind, error |-> (kind # "ok"), returned |-> TRUE,
                   created |-> IF kind = "ok" THEN {m.id : m \in to_insert} ELSE {}]
        /\ UNCHANGED nextFamId

\* create_family from the member insert to its return.
CreateFamilyMembers(call, kind) ==
    LET mems == call.mems
        family_id == call.family_id
        to_insert == ToInsert(family_id, mems)
    IN  /\ call \in pending
        /\ pending' = pending \ {call}
        /\ IF kind = "ok"
           THEN /\ members' = members \cup to_insert
                /\ nextMemId' = nextMemId + Len(mems)
           ELSE UNCHANGED <<members, nextMemId>>
        /\ ret' = [op |-> "create_family", stage |-> "members", fid |-> family_id,
                   memResp |-> kind, error |-> (kind # "ok"), returned |-> TRUE,
                   created |-> IF kind = "ok" THEN {m.id : m \in to_insert} ELSE {}]
        /\ UNCHANGED <<families, nextFamId>>

\* get_families_for_user: the user's families, each with its member rows.
GetFamiliesForUser(user_id) ==
    /\ ret' = [op |-> "get_families_for_user", user |-> user_id,
               data |-> {[id |-> f.id,
                          family_members |-> {m.id : m \in {x \in members : x.family_id = f.id}}] :
                            f \in {g \in families : g.user_id = user_id}}]
    /\ UNCHANGED db

\* A partial update leaves a column alone when the dictionary lacks its
\* key (NoneStr / NoInt in the encoding of the dictionary).
MergeFamily(f, updates) ==
    [id |-> f.id,
     user_id |-> IF updates.user_id # NoneStr THEN updates.user_id ELSE f.user_id,
     annual_income |-> IF updates.annual_income # NoInt
                       THEN updates.annual_income ELSE f.annual_income,
     scheme_type |-> IF updates.scheme_type # NoneStr
                     THEN updates.scheme_type ELSE f.scheme_type,
     card_number |-> IF updates.card_number # NoneStr
                     THEN updates.card_number ELSE f.card_number]

MergeMember(m, updates) ==
    [id |-> m.id,
     family_id |-> IF updates.family_id # NoInt THEN updates.family_id ELSE m.family_id,
     name |-> IF updates.name # NoneStr THEN updates.name ELSE m.name]

\* update_family: update(updates).eq("id", family_id)
UpdateFamily(family_id, updates, kind) ==
    /\ families' = IF kind = "ok"
                   THEN {IF f.id = family_id THEN MergeFamily(f, updates) ELSE f : f \in families}
                   ELSE families
    /\ ret' = [op |-> "update_family", id |-> family_id, updates |-> updates,
               error |-> (kind # "ok"),
               rows |-> IF kind = "ok" THEN Cardinality({f \in families : f.id = family_id}) ELSE 0]
    /\ UNCHANGED <<members, pending, nextFamId, nextMemId>>

\* update_member: update(updates).eq("id", member_id)
UpdateMember(member_id, updates, kind) ==
    /\ members' = IF kind = "ok"
                  THEN {IF m.id = member_id THEN MergeMember(m, updates) ELSE m : m \in members}
                  ELSE members
    /\ ret' = [op |-> "update_member", id |-> member_id, updates |-> updates,
               error |-> (kind # "ok"),
               rows |-> IF kind = "ok" THEN Cardinality({m \in members : m.id = member_id}) ELSE 0]
    /\ UNCHANGED <<families, pending, nextFamId, nextMemId>>

\* delete_member: delete().eq("id", member_id)
DeleteMember(member_id, kind) ==
    /\ members' = IF kind = "ok" THEN {m \in members : m.id # member_id} ELSE members
    /\ ret' = [op |-> "delete_member", id |-> member_id,
               error |-> (kind # "ok"),
               rows |-> IF kind = "ok" THEN Cardinality({m \in members : m.id = member_id}) ELSE 0]
    /\ UNCHANGED <<families, pending, nextFamId, nextMemId>>

----------------------------------------------------------------------------
(* app1.py: bearer token and user resolution *)

\* str.lower() on the first word of the header, for the words the model sends
Lower(w) == IF w \in {"Bearer", "bearer", "BEARER"} THEN "bearer" ELSE w

\* a token taken from any two-word header, whatever its first word
_get_bearer_token_any_scheme(parts) ==
    IF parts = <<>>
    THEN NoneStr
    ELSE IF Len(parts) = 2 THEN parts[2] ELSE NoneStr

\* _get_bearer_token; parts is the Authorization header split on blanks
\* (<<>> for a missing or empty header).  NoneStr is Python's None.
_get_bearer_token(parts) ==
    IF parts = <<>>
    THEN NoneStr
    ELSE IF Len(parts) = 2 /\ Lower(parts[1]) = "bearer" THEN parts[2] ELSE NoneStr

\* A dictionary entry holding a dictionary is [kind, ...]: kind "absent" for
\* a missing key, "null" for None, "dict" for a dictionary.  An id is
\* NoneStr (missing or None), "" or a user id.
IsDict(d) == d.kind = "dict"
\* bool(d) for a dictionary or None
TruthyDict(d) == d.kind = "dict" /\ (d.id # NoneStr \/ d.user.kind # "absent")
TruthyStr(x) == x # NoneStr /\ x # ""

NoInner == [kind |-> "absent", id |-> NoneStr]
NoUser == [kind |-> "absent", id |-> NoneStr, user |-> NoInner]
NoData == [kind |-> "none", id |-> NoneStr, user |-> NoUser]

\* What the auth service answers to a token: the client raises, or returns
\* an object with an error and / or a data attribute.
Verify(raised, error, data) == [raised |-> raised, error |-> error, data |-> data]
NoVerify == Verify(FALSE, "", NoData)

\* get_user_from_token: the parsed verification answer, or {"error": ...}
\* when the client raised
get_user_from_token(verify) ==
    IF verify.raised
    THEN [keys |-> {"error"}, hasData |-> FALSE, data |-> NoData, error |-> "invalid token"]
    ELSE _resp_data([hasData |-> verify.data.kind # "none", data |-> verify.data,
                     error |-> verify.error])

\* the lookup without the data["id"] fallback
ResolveUserIdNoFallback(data) ==
    LET viaUser == TruthyDict(data.user)
        inner == IF viaUser THEN data.user.user ELSE data.user
        own == IF viaUser THEN data.user.id ELSE data.id
    IN  IF TruthyStr(own)
        THEN [crash |-> FALSE, id |-> own]
        ELSE IF inner.kind = "null"
             THEN [crash |-> TRUE, id |-> NoneStr]
             ELSE IF inner.kind = "dict"
                  THEN [crash |-> FALSE, id |-> inner.id]
                  ELSE [crash |-> FALSE, id |-> NoneStr]

\* require_auth, from "user = ..." to the data["id"] fallback: [crash, id].
\* crash is the AttributeError of None.get when a "user" entry is None.
ResolveUserId(data) ==
    LET viaUser == TruthyDict(data.user)
        \* user.get("id") or user.get("user", {}).get("id"), with user = data["user"]
        idA == IF TruthyStr(data.user.id)
               THEN [crash |-> FALSE, id |-> data.user.id]
               ELSE IF data.user.user.kind = "null"
                    THEN [crash |-> TRUE, id |-> NoneStr]
                    ELSE IF data.user.user.kind = "dict"
                         THEN [crash |-> FALSE, id |-> data.user.user.id]
                         ELSE [crash |-> FALSE, id |-> NoneStr]
        \* the same expression with user = data
        idB == IF TruthyStr(data.id)
               THEN [crash |-> FALSE, id |-> data.id]
               ELSE IF data.user.kind = "null"
                    THEN [crash |-> TRUE, id |-> NoneStr]
                    ELSE IF data.user.kind = "dict"
                         THEN [crash |-> FALSE, id |-> data.user.id]
                         ELSE [crash |-> FALSE, id |-> NoneStr]
        first == IF viaUser THEN idA ELSE idB
    IN  IF first.crash \/ TruthyStr(first.id)
        THEN first
        ELSE [crash |-> FALSE, id |-> data.id]

\* require_auth: [user_id, status, message]; status 0 is "no error", 500 an
\* exception escaping the helper.
require_auth(parts, verify) ==
    LET token == _get_bearer_token(parts)
        user_parsed == get_user_from_token(verify)
        data == IF HasData(user_parsed) THEN user_parsed.data ELSE NoData
        viaUser == IsDict(data) /\ TruthyDict(data.user)
        resolved == ResolveUserId(data)
    IN  IF token = NoneStr
        THEN [user_id |-> NoneStr, status |-> 401,
              message |-> "Missing Authorization Bearer token"]
        ELSE IF GetError(user_parsed) # ""
        THEN [user_id |-> NoneStr, status |-> 401, message |-> GetError(user_parsed)]
        ELSE IF ~IsDict(data) \/ (~viaUser /\ ~TruthyDict(data))
        THEN [user_id |-> NoneStr, status |-> 401,
              message |-> "Invalid token / could not resolve user"]
        ELSE IF resolved.crash
        THEN [user_id |-> NoneStr, status |-> 500, message |-> "AttributeError"]
        ELSE IF ~TruthyStr(resolved.id)
        THEN [user_id |-> NoneStr, status |-> 401,
              message |-> "Unable to determine user id"]
        ELSE [user_id |-> resolved.id, status |-> 0, message |-> ""]

----------------------------------------------------------------------------
(* app1.py: the bearer-protected routes *)

\* The exchange a handler step ends with.  repo tells whether the handler
\* called into utils.py; status 0 marks a create-family request still
\* between its two inserts, resumed the step that finishes such a request
\* (its header was examined by the step that started it).
Exchange(route, parts, verify, status, user_id, repo) ==
    [route |-> route, parts |-> parts, verify |-> verify, status |-> status,
     user_id |-> user_id, repo |-> repo, resumed |-> FALSE]

Refused(route, parts, verify, status) ==
    /\ last' = Exchange(route, parts, verify, status, NoneStr, FALSE)
    /\ UNCHANGED <<db, ret>>

\* POST /create-family up to and including the family insert
RouteCreateFamily(parts, verify, family_name, annual_income, mems, chosen_scheme, card, kind) ==
    LET auth == require_auth(parts, verify)
        route == "POST /create-family"
    IN  IF auth.status # 0
        THEN Refused(route, parts, verify, auth.status)
        ELSE IF family_name = ""
        THEN Refused(route, parts, verify, 400)
        ELSE /\ CreateFamilyInsert(auth.user_id, annual_income, mems, chosen_scheme, card, kind)
             /\ last' = Exchange(route, parts, verify,
                                 IF ret'.error THEN 400 ELSE IF ret'.returned THEN 200 ELSE 0,
                                 auth.user_id, TRUE)

\* POST /create-family from the member insert to the response; the request
\* was authenticated as call.user_id when it started
RouteCreateFamilyMembers(call, kind) ==
    /\ CreateFamilyMembers(call, kind)
    /\ last' = [Exchange("POST /create-family", <<>>, NoVerify,
                         IF kind = "ok" THEN 200 ELSE 400, call.user_id, TRUE)
                    EXCEPT !.resumed = TRUE]

\* GET /families
RouteGetFamilies(parts, verify) ==
    LET auth == require_auth(parts, verify)
        route == "GET /families"
    IN  IF auth.status # 0
        THEN Refused(route, parts, verify, auth.status)
        ELSE /\ GetFamiliesForUser(auth.user_id)
             /\ last' = Exchange(route, parts, verify, 200, auth.user_id, TRUE)

\* PUT /family/<id> applied only to a family of the authenticated user
RouteUpdateFamilyOwned(parts, verify, family_id, updates, kind) ==
    LET auth == require_auth(parts, verify)
        route == "PUT /family"
        mine == {f \in families : f.id = family_id /\ f.user_id = auth.user_id}
    IN  IF auth.status # 0
        THEN Refused(route, parts, verify, auth.status)
        ELSE /\ families' = IF kind = "ok"
                            THEN {IF f \in mine THEN MergeFamily(f, updates) ELSE f :
                                     f \in families}
                            ELSE families
             /\ ret' = [op |-> "update_family", id |-> family_id, updates |-> updates,
                        error |-> (kind # "ok"),
                        rows |-> IF kind = "ok" THEN Cardinality(mine) ELSE 0]
             /\ UNCHANGED <<members, pending, nextFamId, nextMemId>>
             /\ last' = Exchange(route, parts, verify, 200, auth.user_id, TRUE)

\* PUT /family/<id>
RouteUpdateFamily(parts, verify, family_id, updates, kind) ==
    LET auth == require_auth(parts, verify)
        route == "PUT /family"
    IN  IF auth.status # 0
        THEN Refused(route, parts, verify, auth.status)
        ELSE /\ UpdateFamily(family_id, updates, kind)
             /\ last' = Exchange(route, parts, verify, 200, auth.user_id, TRUE)

\* PUT /member/<id>
RouteUpdateMember(parts, verify, member_id, updates, kind) ==
    LET auth == require_auth(parts, verify)
        route == "PUT /member"
    IN  IF auth.status # 0
        THEN Refused(route, parts, verify, auth.status)
        ELSE /\ UpdateMember(member_id, updates, kind)
             /\ last' = Exchange(route, parts, verify, 200, auth.user_id, TRUE)

\* DELETE /member/<id>
RouteRemoveMember(parts, verify, member_id, kind) ==
    LET auth == require_auth(parts, verify)
        route == "DELETE /member"
    IN  IF auth.status # 0
        THEN Refused(route, parts, verify, auth.status)
        ELSE /\ DeleteMember(member_id, kind)
             /\ last' = Exchange(route, parts, verify, 200, auth.user_id, TRUE)

----------------------------------------------------------------------------
(* app.py: /generate-card *)

CardFee(scheme) ==
    CASE scheme = "Silver" -> FeeSilverCard
      [] scheme = "Gold" -> FeeGoldCard
      [] scheme = "Platinum" -> FeePlatinumCard

CardDiscount(scheme) ==
    CASE scheme = "Silver" -> "5%"
      [] scheme = "Gold" -> "10%"
      [] scheme = "Platinum" -> "15%"

\* generate_card.  requested is the body's "scheme" entry: NoneStr when the
\* key is missing, "<null>" for a JSON null, otherwise the string sent.
\* A failed dictionary lookup (KeyError) ends the request with status 500.
generate_card(income, requested, card_number) ==
    LET scheme == IF income < IncomeThreshold
                  THEN "Silver"
                  ELSE IF requested = NoneStr THEN "Silver" ELSE requested
        keyError == income >= IncomeThreshold /\ scheme \notin Tiers
    IN  IF keyError
        THEN [status |-> 500, scheme |-> NoneStr, fee |-> NoInt,
              discount |-> NoneStr, card_number |-> NoneStr]
        ELSE [status |-> 200, scheme |-> scheme,
              fee |-> IF income < IncomeThreshold THEN 0 ELSE CardFee(scheme),
              discount |-> CardDiscount(scheme), card_number |-> card_number]

GenerateCard(income, requested, card_number) ==
    /\ cardReq' = [income |-> income, requested |-> requested,
                   response |-> generate_card(income, requested, card_number)]
    /\ UNCHANGED <<db, ret, last, authChk>>

(* One evaluation of require_auth on a header and a verification answer *)
CheckAuth(parts, verify) ==
    /\ authChk' = [parts |-> parts, verify |-> verify,
                   result |-> require_auth(parts, verify)]
    /\ UNCHANGED <<db, ret, last, cardReq>>

----------------------------------------------------------------------------
(* Initial state and inputs *)

Init ==
    /\ families = {}
    /\ members = {}
    /\ pending = {}
    /\ nextFamId = 1
    /\ nextMemId = 1
    /\ ret = [op |-> "none"]
    /\ last = Exchange("none", <<>>, NoVerify, 0, NoneStr, FALSE)
    /\ cardReq = [income |-> NoInt, requested |-> NoneStr,
                  response |-> [status |-> 0, scheme |-> NoneStr, fee |-> NoInt,
                                discount |-> NoneStr, card_number |-> NoneStr]]
    /\ authChk = [parts |-> <<>>, verify |-> NoVerify,
                  result |-> [user_id |-> NoneStr, status |-> NoInt, message |-> ""]]

Users == {"u1", "u2"}
Incomes == {99999, 100000}
ChosenSchemes == {NoneStr, "Silver", "Gold", "Platinum", "Bronze"}

\* partial update dictionaries over the given column values
FamilyUpdates(U, I, S, K) ==
    [user_id : U \cup {NoneStr}, annual_income : I \cup {NoInt},
     scheme_type : S \cup {NoneStr}, card_number : K \cup {NoneStr}]
MemberUpdates(F, N) ==
    [family_id : F \cup {NoInt}, name : N \cup {NoneStr}]

\* ids a caller may name: those handed out so far and the next one
SomeFamilyIds == 1..nextFamId
SomeMemberIds == 1..nextMemId

routes == <<last, cardReq, authChk>>

----------------------------------------------------------------------------
(* Spec: the repository functions of utils.py called in any order, any      *)
(* number of create_family calls in flight.  Inputs vary the columns of a   *)
(* family row.                                                              *)

FamilyUpdateDicts == FamilyUpdates({}, {99999}, {"Platinum"}, {"CARD-A"})
MemberUpdateDicts == MemberUpdates({}, {"Ravi"})

CreateInsert ==
    \E i \in Incomes, m \in {<<>>, <<"Asha">>}, c \in {NoneStr, "Gold"},
       k \in CardNumbers, r \in {"ok", "error"} :
        /\ nextFamId <= MaxFamilies
        /\ CreateFamilyInsert("u1", i, m, c, k, r)
        /\ UNCHANGED routes

CreateMembers ==
    \E call \in pending, r \in MemResps :
        CreateFamilyMembers(call, r) /\ UNCHANGED routes

GetFamilies ==
    \E u \in Users : GetFamiliesForUser(u) /\ UNCHANGED routes

UpdateFamilyCall ==
    \E f \in SomeFamilyIds, upd \in FamilyUpdateDicts, r \in MemResps :
        UpdateFamily(f, upd, r) /\ UNCHANGED routes

UpdateMemberCall ==
    \E m \in SomeMemberIds, upd \in MemberUpdateDicts, r \in MemResps :
        UpdateMember(m, upd, r) /\ UNCHANGED routes

DeleteMemberCall ==
    \E m \in SomeMemberIds, r \in MemResps :
        DeleteMember(m, r) /\ UNCHANGED routes

Next ==
    \/ CreateInsert
    \/ CreateMembers
    \/ GetFamilies
    \/ UpdateFamilyCall
    \/ UpdateMemberCall
    \/ DeleteMemberCall

Spec == Init /\ [][Next]_vars

\* C1: no stored family row has scheme_type Gold or Platinum while its
\* annual_income is below 100000, after any create_family / update_family
\* calls.
C1_NoPaidTierBelowThreshold ==
    \A f \in families :
        f.annual_income < 100000 => f.scheme_type \notin {"Gold", "Platinum"}

\* C2: the card number of a stored family never changes after the
\* create_family call that inserted it: every step leaves the card_number
\* of every existing family row as it was.
C2_CardNumberImmutable ==
    [][\A f \in families : \A g \in families' :
            g.id = f.id => g.card_number = f.card_number]_vars

\* C3: no two distinct stored family rows have the same card_number.
C3_CardNumbersUnique ==
    \A f, g \in families : f.id # g.id => f.card_number # g.card_number

----------------------------------------------------------------------------
(* SpecScheme: create_family on every income / requested tier combination. *)

SchemeIncomes == {0, 99999, 100000, 250000}

SchemeCreateInsert ==
    \E i \in SchemeIncomes, m \in {<<>>, <<"Asha">>}, c \in ChosenSchemes,
       r \in {"ok", "error"} :
        /\ nextFamId <= MaxFamilies
        /\ CreateFamilyInsert("u1", i, m, c, "CARD-A", r)
        /\ UNCHANGED routes

SchemeCreateMembers ==
    \E call \in pending, r \in MemResps :
        CreateFamilyMembers(call, r) /\ UNCHANGED routes

NextScheme == SchemeCreateInsert \/ SchemeCreateMembers

SpecScheme == Init /\ [][NextScheme]_vars

----------------------------------------------------------------------------
(* SpecMembers: create_family with member lists and every outcome of its    *)
(* two storage requests, read by get_families_for_user at any point.       *)

MemberLists == {<<>>, <<"Asha">>, <<"Asha", "Ravi">>}

MembersCreateInsert ==
    \E u \in Users, m \in MemberLists, r \in FamResps :
        /\ nextFamId <= MaxFamilies
        /\ CreateFamilyInsert(u, 100000, m, NoneStr, "CARD-A", r)
        /\ UNCHANGED routes

MembersCreateMembers ==
    \E call \in pending, r \in MemResps :
        CreateFamilyMembers(call, r) /\ UNCHANGED routes

MembersGetFamilies ==
    \E u \in Users : GetFamiliesForUser(u) /\ UNCHANGED routes

NextMembers == MembersCreateInsert \/ MembersCreateMembers \/ MembersGetFamilies

SpecMembers == Init /\ [][NextMembers]_vars

\* C4: a create_family call with a non-empty member list whose family
\* insert fails (an error, or no rows) returns an error without attempting
\* the member insert: the step creates no member row and leaves no member
\* insert to be done.
C4_NoMemberInsertAfterFailedFamilyInsert ==
    [][(/\ ret'.op = "create_family" /\ ret'.stage = "family"
        /\ ret'.wantMembers /\ ret'.famResp # "ok")
       => /\ ret'.error /\ ret'.returned
          /\ members' = members
          /\ nextMemId' = nextMemId
          /\ pending' = pending]_vars

C4_Witness ==
    /\ ret.op = "create_family" /\ ret.stage = "family"
    /\ ret.wantMembers /\ ret.famResp = "empty" /\ ret.error /\ ret.returned
    /\ members # {}
    /\ pending = {}

\* C9: when the member insert fails after the family insert succeeded,
\* create_family returns an error and the family row stays stored, without
\* any of the requested members (no compensating delete); and between the
\* two inserts the family row is stored without members, which is what
\* get_families_for_user then returns for it.
C9_PartialFailure ==
    /\ [][(/\ ret'.op = "create_family" /\ ret'.stage = "members"
           /\ ret'.memResp # "ok")
          => /\ ret'.error /\ ret'.created = {}
             /\ families' = families
             /\ members' = members
             /\ ret'.fid \in {f.id : f \in families'}
             /\ ~\E m \in members' : m.family_id = ret'.fid]_vars
    /\ [](\A call \in pending :
            /\ call.family_id \in FamilyIds
            /\ ~\E m \in members : m.family_id = call.family_id
            /\ (ret.op = "get_families_for_user" /\ ret.user = FamilyRow(call.family_id).user_id)
                => [id |-> call.family_id, family_members |-> {}] \in ret.data)

C9_Witness ==
    /\ ret.op = "create_family" /\ ret.stage = "members" /\ ret.error
    /\ ret.fid \in FamilyIds
    /\ ~\E m \in members : m.family_id = ret.fid
    /\ members # {}

----------------------------------------------------------------------------
(* SpecRoutes: the bearer-protected routes of app1.py, requests arriving    *)
(* with any header and any answer of the token verification.               *)

Headers == {<<>>, <<"Token", "tok">>, <<"bearer", "tok">>}

DictData(id, user) == [kind |-> "dict", id |-> id, user |-> user]
DictUser(id, inner) == [kind |-> "dict", id |-> id, user |-> inner]
NullUser == [kind |-> "null", id |-> NoneStr, user |-> NoInner]

\* answers of the token verification: the client raises, an error answer,
\* no data, a dictionary without an id, a null user entry, and the two
\* shapes carrying a user id
RouteVerifies ==
    { Verify(TRUE, "", NoData),
      Verify(FALSE, "invalid JWT", NoData),
      Verify(FALSE, "", NoData),
      Verify(FALSE, "", DictData("", DictUser("", NoInner))),
      Verify(FALSE, "", DictData(NoneStr, NullUser)),
      Verify(FALSE, "", DictData(NoneStr, DictUser("u1", NoInner))),
      Verify(FALSE, "", DictData("u2", NoUser)) }

\* The verification is asked only when the header carries a token.
VerifiesFor(parts) ==
    IF _get_bearer_token(parts) = NoneStr THEN {NoVerify} ELSE RouteVerifies

RouteFamilyUpdates == FamilyUpdates({}, {}, {"Platinum"}, {}) \ FamilyUpdates({}, {}, {}, {})
RouteMemberUpdates == MemberUpdates({}, {"Ravi"}) \ MemberUpdates({}, {})

PostCreateFamily ==
    \E parts \in Headers : \E verify \in VerifiesFor(parts) :
    \E name \in {"", "Rao"}, m \in {<<>>, <<"Asha">>}, r \in {"ok", "error"} :
        /\ nextFamId <= MaxRouteFamilies
        /\ RouteCreateFamily(parts, verify, name, 100000, m, "Gold", "CARD-A", r)
        /\ UNCHANGED <<cardReq, authChk>>

PostCreateFamilyMembers ==
    \E call \in pending, r \in MemResps :
        RouteCreateFamilyMembers(call, r) /\ UNCHANGED <<cardReq, authChk>>

GetFamiliesRoute ==
    \E parts \in Headers : \E verify \in VerifiesFor(parts) :
        RouteGetFamilies(parts, verify) /\ UNCHANGED <<cardReq, authChk>>

PutFamily ==
    \E parts \in Headers : \E verify \in VerifiesFor(parts) :
    \E f \in SomeFamilyIds, upd \in RouteFamilyUpdates :
        RouteUpdateFamily(parts, verify, f, upd, "ok") /\ UNCHANGED <<cardReq, authChk>>

PutMember ==
    \E parts \in Headers : \E verify \in VerifiesFor(parts) :
    \E m \in SomeMemberIds, upd \in RouteMemberUpdates :
        RouteUpdateMember(parts, verify, m, upd, "ok") /\ UNCHANGED <<cardReq, authChk>>

DeleteMemberRoute ==
    \E parts \in Headers : \E verify \in VerifiesFor(parts) :
    \E m \in SomeMemberIds :
        RouteRemoveMember(parts, verify, m, "ok") /\ UNCHANGED <<cardReq, authChk>>

NextRoutes ==
    \/ PostCreateFamily
    \/ PostCreateFamilyMembers
    \/ GetFamiliesRoute
    \/ PutFamily
    \/ PutMember
    \/ DeleteMemberRoute

SpecRoutes == Init /\ [][NextRoutes]_vars

\* Vocabulary of C5.  The Authorization header is missing; it is not
\* "Bearer <token>"; the token is rejected: the verification raises, answers
\* with an error or without data, or its data carries no non-empty user id.
C5_HeaderMissing(parts) == parts = <<>>
C5_HeaderMalformed(parts) ==
    parts # <<>> /\ ~(Len(parts) = 2 /\ parts[1] \in {"Bearer", "bearer", "BEARER"})
C5_IdsIn(d) ==
    {d.id} \cup (IF d.user.kind = "dict"
                 THEN {d.user.id} \cup (IF d.user.user.kind = "dict"
                                        THEN {d.user.user.id} ELSE {})
                 ELSE {})
C5_HasNull(d) ==
    d.user.kind = "null" \/ (d.user.kind = "dict" /\ d.user.user.kind = "null")
C5_TokenRejected(v) ==
    \/ v.raised
    \/ v.error # ""
    \/ v.data.kind # "dict"
    \/ (~C5_HasNull(v.data) /\ \A i \in C5_IdsIn(v.data) : i = NoneStr \/ i = "")

C10_NoOwnershipCheck ==
    [][/\ (last'.route = "PUT /family" /\ last'.repo /\ ~ret'.error)
            => /\ ret'.op = "update_family"
               /\ families' = {IF f.id = ret'.id THEN MergeFamily(f, ret'.updates) ELSE f :
                                  f \in families}
       /\ (last'.route = "PUT /member" /\ last'.repo /\ ~ret'.error)
            => /\ ret'.op = "update_member"
               /\ members' = {IF m.id = ret'.id THEN MergeMember(m, ret'.updates) ELSE m :
                                 m \in members}
       /\ (last'.route = "DELETE /member" /\ last'.repo /\ ~ret'.error)
            => /\ ret'.op = "delete_member"
               /\ members' = {m \in members : m.id # ret'.id}]_vars

C10_Witness ==
    /\ last.route = "PUT /family" /\ last.repo /\ ~ret.error
    /\ ret.updates.scheme_type = "Platinum"
    /\ \E f \in families :
          /\ f.id = ret.id
          /\ f.user_id # last.user_id
          /\ f.scheme_type = "Platinum"

----------------------------------------------------------------------------
(* SpecAuth: require_auth on every header and every shape of the answer of  *)
(* the token verification.                                                 *)

AuthHeaders == {<<>>, <<"Bearer">>, <<"Token", "tok">>, <<"Bearer", "tok">>,
                <<"bearer", "tok">>, <<"Bearer", "tok", "x">>}
IdValues == {NoneStr, "", "u1", "u2"}
InnerEntries ==
    {NoInner, [kind |-> "null", id |-> NoneStr]}
        \cup {[kind |-> "dict", id |-> i] : i \in IdValues}
UserEntries ==
    {NoUser, NullUser} \cup {DictUser(i, inner) : i \in IdValues, inner \in InnerEntries}
AuthVerifies ==
    {Verify(TRUE, "", NoData), Verify(FALSE, "invalid JWT", NoData), Verify(FALSE, "", NoData)}
        \cup {Verify(FALSE, e, DictData(i, u)) :
                e \in {"", "invalid JWT"}, i \in IdValues, u \in UserEntries}

AuthCheck ==
    \E parts \in AuthHeaders :
    \E verify \in (IF _get_bearer_token(parts) = NoneStr THEN {NoVerify} ELSE AuthVerifies) :
        CheckAuth(parts, verify)

NextAuth == AuthCheck

SpecAuth == Init /\ [][NextAuth]_vars

----------------------------------------------------------------------------
(* SpecCard: the /generate-card handler of app.py on every income and       *)
(* requested scheme.                                                       *)

CardIncomes == {0, 50000, 99999, 100000, 100001, 250000, 1000000}
RequestedSchemes == {NoneStr, "<null>", "Silver", "Gold", "Platinum", "Bronze"}
\* values of str(uuid4())[:8]
ShortCardNumbers == {"1a2b3c4d", "5e6f7a8b", "9c0d1e2f"}

PostGenerateCard ==
    \E income \in CardIncomes, requested \in RequestedSchemes, c \in ShortCardNumbers :
        GenerateCard(income, requested, c)

NextCard == PostGenerateCard

SpecCard == Init /\ [][NextCard]_vars

\* C7: /generate-card answers every income and every requested tier with the
\* policy's tier, fee and discount: Silver, fee 0, 5% below 100000; otherwise
\* the requested tier when it is Silver, Gold or Platinum and Silver for any
\* other or absent value, with Silver (0, 5%), Gold (configured fee, 10%),
\* Platinum (1000, 15%); an invalid requested tier is no error.
C7_GenerateCardFollowsPolicy ==
    LET r == cardReq.response
        tier == IF cardReq.income < 100000
                THEN "Silver"
                ELSE IF cardReq.requested \in {"Silver", "Gold", "Platinum"}
                     THEN cardReq.requested ELSE "Silver"
    IN  cardReq.income # NoInt =>
            /\ r.status = 200
            /\ r.scheme = tier
            /\ tier = "Silver" => r.fee = 0 /\ r.discount = "5%"
            /\ tier = "Gold" => r.fee \in {250, 500} /\ r.discount = "10%"
            /\ tier = "Platinum" => r.fee = 1000 /\ r.discount = "15%"

====
